---- MODULE Spec2Model ----
(***************************************************************************)
(* State-machine model of the smart-city backend: the AI provider          *)
(* configuration endpoints (app/api/ai.py), the chat orchestrator          *)
(* (app/api/chat.py), the AI service with its usage accounting             *)
(* (app/services/ai_service.py) and the weather scene expansion            *)
(* (app/services/weather_scene_service.py).                                *)
(*                                                                         *)
(* Text is modelled as a sequence of characters, so that lower(),          *)
(* substring tests and concatenation are computed, not assumed.            *)
(* Coordinates are the source's decimal degrees times 10^4.                *)
(***************************************************************************)
EXTENDS Integers, Sequences, FiniteSets, TLC

VARIABLES providers, conversations, usage, last, users, configs, inflight

vars == <<providers, conversations, usage, last, users, configs, inflight>>

\* tb_users and tb_user_configs
accounts == <<users, configs>>

(***************************************************************************)
(* Bounds of the model                                                     *)
(***************************************************************************)
\* rows of tb_ai_conversations after which Spec accepts no further request
MaxConv == 4
\* rows of tb_ai_conversations after which SpecHist accepts no further request
MaxConvHist == 24
\* rows of tb_ai_conversations after which SpecTools accepts no further request
MaxConvTools == 2
\* requests counted per usage row before Spec accepts no further request
MaxRequests == 4

Users == {"u1", "u2"}
Sessions == {"s1"}

(***************************************************************************)
(* Text helpers (Python str.lower, the in operator, str + str)             *)
(***************************************************************************)
LowerChar(c) ==
    CASE c = "B" -> "b"
      [] c = "S" -> "s"
      [] c = "G" -> "g"
      [] c = "H" -> "h"
      [] c = "K" -> "k"
      [] c = "X" -> "x"
      [] c = "C" -> "c"
      [] c = "P" -> "p"
      [] c = "T" -> "t"
      [] OTHER -> c

Lower(s) == [i \in 1..Len(s) |-> LowerChar(s[i])]

\* Python: a in b, for two strings
IsSubstr(a, b) ==
    \E i \in 0..(Len(b) - Len(a)) : SubSeq(b, i + 1, i + Len(a)) = a

\* city names used by the tables below
zhBeijing == <<"U5317", "U4EAC">>
zhShanghai == <<"U4E0A", "U6D77">>
zhGuangzhou == <<"U5E7F", "U5DDE">>
zhShenzhen == <<"U6DF1", "U5733">>
zhHongKong == <<"U9999", "U6E2F">>
zhXian == <<"U897F", "U5B89">>
zhChengdu == <<"U6210", "U90FD">>
zhHangzhou == <<"U676D", "U5DDE">>
zhWuhan == <<"U6B66", "U6C49">>
zhNanjing == <<"U5357", "U4EAC">>
enBeijing == <<"B", "e", "i", "j", "i", "n", "g">>
enShanghai == <<"S", "h", "a", "n", "g", "h", "a", "i">>
enGuangzhou == <<"G", "u", "a", "n", "g", "z", "h", "o", "u">>
enShenzhen == <<"S", "h", "e", "n", "z", "h", "e", "n">>
enHongKong == <<"H", "o", "n", "g", " ", "K", "o", "n", "g">>
enXian == <<"X", "i", "'", "a", "n">>
enChengdu == <<"C", "h", "e", "n", "g", "d", "u">>
enHangzhou == <<"H", "a", "n", "g", "z", "h", "o", "u">>
enParis == <<"P", "a", "r", "i", "s">>

(***************************************************************************)
(* Python values that cross the JSON boundary: a dict is a function from   *)
(* its keys; a key whose value is None is left out of the function.        *)
(***************************************************************************)
EmptyDict == [k \in {} |-> 0]

Dict(f) == [kind |-> "dict", d |-> f]

\* dict.get(key) is not None
Has(p, key) == key \in DOMAIN p

\* Python truthiness of an optional number: present and not 0
TruthyNum(p, key) == Has(p, key) /\ p[key] # 0

\* str(x) for an optional string, as an f-string renders it
StrOf(p, key) == IF Has(p, key) THEN p[key] ELSE <<"N", "o", "n", "e">>

(***************************************************************************)
(* chat.py: the rule-based fallback's keyword table, in dict order         *)
(***************************************************************************)
city_keywords ==
    << [key |-> zhShanghai, value |-> zhShanghai],
       [key |-> zhBeijing, value |-> zhBeijing],
       [key |-> zhGuangzhou, value |-> zhGuangzhou],
       [key |-> zhShenzhen, value |-> zhShenzhen],
       [key |-> zhHongKong, value |-> zhHongKong],
       [key |-> Lower(enHangzhou), value |-> zhHangzhou],
       [key |-> Lower(enShanghai), value |-> zhShanghai],
       [key |-> Lower(enBeijing), value |-> zhBeijing],
       [key |-> Lower(enGuangzhou), value |-> zhGuangzhou],
       [key |-> Lower(enShenzhen), value |-> zhShenzhen],
       [key |-> Lower(enHongKong), value |-> zhHongKong] >>

\* does keyword entry i match the message (chat.py line 108)
KeywordMatches(i, message_content) ==
    \/ IsSubstr(city_keywords[i].key, Lower(message_content))
    \/ IsSubstr(city_keywords[i].value, message_content)

\* lines 107-113 given the indexes of the matching entries: the first one only
FirstRuleAction(hits) ==
    IF hits = {} THEN <<>>
    ELSE << [type |-> "camera_flyTo",
             parameters |->
               Dict([city |-> city_keywords[CHOOSE i \in hits : \A j \in hits : i <= j].value])] >>

\* the actions list the fallback builds (lines 96-113)
RuleActions(message_content) ==
    FirstRuleAction({i \in 1..Len(city_keywords) : KeywordMatches(i, message_content)})

(***************************************************************************)
(* weather_scene_service.py: execute_weather_scene_action                  *)
(***************************************************************************)
city_coords ==
    << [key |-> zhBeijing, longitude |-> 1164074, latitude |-> 399042],
       [key |-> zhShanghai, longitude |-> 1214737, latitude |-> 312304],
       [key |-> zhGuangzhou, longitude |-> 1132644, latitude |-> 231291],
       [key |-> zhShenzhen, longitude |-> 1140579, latitude |-> 225431],
       [key |-> zhHongKong, longitude |-> 1141694, latitude |-> 223193],
       [key |-> zhXian, longitude |-> 1089398, latitude |-> 343416],
       [key |-> zhChengdu, longitude |-> 1040668, latitude |-> 305728],
       [key |-> zhHangzhou, longitude |-> 1201551, latitude |-> 302741],
       [key |-> zhWuhan, longitude |-> 1143055, latitude |-> 305928],
       [key |-> zhNanjing, longitude |-> 1187969, latitude |-> 320603],
       [key |-> enBeijing, longitude |-> 1164074, latitude |-> 399042],
       [key |-> enShanghai, longitude |-> 1214737, latitude |-> 312304],
       [key |-> enGuangzhou, longitude |-> 1132644, latitude |-> 231291],
       [key |-> enShenzhen, longitude |-> 1140579, latitude |-> 225431],
       [key |-> enHongKong, longitude |-> 1141694, latitude |-> 223193],
       [key |-> enXian, longitude |-> 1089398, latitude |-> 343416],
       [key |-> enChengdu, longitude |-> 1040668, latitude |-> 305728],
       [key |-> enHangzhou, longitude |-> 1201551, latitude |-> 302741] >>

\* indexes of the table entries whose key is exactly the city (dict.get)
ExactHits(p) ==
    IF Has(p, "city") THEN {i \in 1..Len(city_coords) : city_coords[i].key = p.city}
    ELSE {}

\* indexes matched by the fuzzy loop (line 62), either string inside the other
FuzzyHits(city) ==
    {i \in 1..Len(city_coords) :
        \/ IsSubstr(Lower(city), Lower(city_coords[i].key))
        \/ IsSubstr(Lower(city_coords[i].key), Lower(city))}

MinOf(S) == CHOOSE i \in S : \A j \in S : i <= j

ErrNoCoords == <<"E", "R", "R", "_", "N", "O", "_", "C", "O", "O", "R", "D", "S", ":">>
ErrNoneLower == <<"N", "o", "n", "e", "T", "y", "p", "e", ".", "l", "o", "w", "e", "r">>
ErrNoGet == <<"l", "i", "s", "t", ".", "g", "e", "t">>
FlyPrefix == <<"f", "l", "y", ":">>
WeatherPrefix == <<"w", "e", "a", "t", "h", "e", "r", ":">>

\* the two-step sequence of lines 76-101
SceneActions(cityd, lon, lat) ==
    << [type |-> "camera_flyTo",
        description |-> FlyPrefix \o StrOf(cityd, "city"),
        parameters |-> Dict([longitude |-> lon, latitude |-> lat,
                             height |-> 5000, duration |-> 3, pitch |-> -30]),
        wait_for_completion |-> TRUE],
       [type |-> "get_weather",
        description |-> WeatherPrefix \o StrOf(cityd, "city"),
        parameters |-> Dict(cityd @@ [latitude |-> lat, longitude |-> lon]),
        delay |-> 1000] >>

\* line 59: latitude and longitude
CoordinatesGiven(p) == TruthyNum(p, "latitude") /\ TruthyNum(p, "longitude")

\* lines 67-110 once the lookups have settled on table entry hit (0: none)
\* and on the city name cityd
SceneAnswer(p, cityd, hit) ==
    IF hit # 0
    THEN [raised |-> FALSE, exc |-> <<>>, error |-> <<>>,
          actions |-> SceneActions(cityd, city_coords[hit].longitude,
                                   city_coords[hit].latitude)]
    ELSE IF ~TruthyNum(p, "longitude") \/ ~TruthyNum(p, "latitude")
    THEN [raised |-> FALSE, exc |-> <<>>,
          error |-> ErrNoCoords \o StrOf(cityd, "city"), actions |-> <<>>]
    ELSE [raised |-> FALSE, exc |-> <<>>, error |-> <<>>,
          actions |-> SceneActions(cityd, p.longitude, p.latitude)]

\* lines 58-65 for the exact and the fuzzy matches: the fuzzy loop renames
\* city to the key it matched
SceneLookup(p, exact, fuzzy) ==
    IF exact # {} THEN SceneAnswer(p, [city |-> p.city], MinOf(exact))
    ELSE IF fuzzy # {}
    THEN SceneAnswer(p, [city |-> city_coords[MinOf(fuzzy)].key], MinOf(fuzzy))
    ELSE SceneAnswer(p, IF Has(p, "city") THEN [city |-> p.city] ELSE EmptyDict, 0)

\* result of execute_weather_scene_action(city = p.get("city"),
\* latitude = p.get("latitude"), longitude = p.get("longitude")):
\* raised (AttributeError of None.lower()), or the error dict, or the actions
execute_weather_scene_action(p) ==
    IF ExactHits(p) # {} \/ CoordinatesGiven(p)
    THEN SceneLookup(p, ExactHits(p), {})
    ELSE IF ~Has(p, "city")
    THEN [raised |-> TRUE, exc |-> ErrNoneLower, error |-> <<>>, actions |-> <<>>]
    ELSE SceneLookup(p, {}, FuzzyHits(p.city))

(***************************************************************************)
(* chat.py lines 144-187: decoding of the response's tool calls            *)
(***************************************************************************)
\* argument texts a vendor may return in tool_call.function.arguments
ArgEmpty == "{}"
ArgBad == "{city: "
ArgList == "[1]"
ArgShanghai == "{\"city\": \"U4E0AU6D77\"}"
ArgHangFuzzy == "{\"city\": \"hang\"}"
ArgParis == "{\"city\": \"Paris\"}"
ArgParisAt == "{\"city\": \"Paris\", \"latitude\": 48.8566, \"longitude\": 2.3522}"
ArgCoordsOnly == "{\"latitude\": 48.8566, \"longitude\": 2.3522}"
ArgHeight == "{\"city\": \"Beijing\", \"height\": 8000}"

\* json.loads: ok = FALSE when the text is not valid JSON
json_loads(text) ==
    CASE text = ArgEmpty -> [ok |-> TRUE, value |-> Dict(EmptyDict)]
      [] text = ArgList -> [ok |-> TRUE, value |-> [kind |-> "list", d |-> <<1>>]]
      [] text = ArgShanghai -> [ok |-> TRUE, value |-> Dict([city |-> zhShanghai])]
      [] text = ArgHangFuzzy -> [ok |-> TRUE, value |-> Dict([city |-> <<"h", "a", "n", "g">>])]
      [] text = ArgParis -> [ok |-> TRUE, value |-> Dict([city |-> enParis])]
      [] text = ArgParisAt ->
            [ok |-> TRUE,
             value |-> Dict([city |-> enParis, latitude |-> 488566, longitude |-> 23522])]
      [] text = ArgCoordsOnly ->
            [ok |-> TRUE, value |-> Dict([latitude |-> 488566, longitude |-> 23522])]
      [] text = ArgHeight ->
            [ok |-> TRUE, value |-> Dict([city |-> enBeijing, height |-> 8000])]
      [] OTHER -> [ok |-> FALSE, value |-> [kind |-> "invalid", d |-> <<>>]]

\* lines 153-157: parameters of one tool call; a failed parse gives {}
ParsedOrEmpty(loaded) == IF loaded.ok THEN loaded.value ELSE Dict(EmptyDict)

DecodeParameters(tc) == ParsedOrEmpty(json_loads(tc.arguments))

\* lines 168-181: the actions a scene result contributes
SceneToActions(scene_result) ==
    IF scene_result.raised
    THEN [raised |-> TRUE, exc |-> scene_result.exc, actions |-> <<>>]
    ELSE IF scene_result.error # <<>>
    THEN [raised |-> FALSE, exc |-> <<>>,
          actions |-> << [type |-> "error",
                          parameters |-> Dict([message |-> scene_result.error])] >>]
    ELSE [raised |-> FALSE, exc |-> <<>>, actions |-> scene_result.actions]

\* lines 159-187 for a tool call named name with decoded parameters
DecodeNamed(name, parameters) ==
    IF name = "query_and_apply_weather"
    THEN IF parameters.kind # "dict"
         THEN [raised |-> TRUE, exc |-> ErrNoGet, actions |-> <<>>]
         ELSE SceneToActions(execute_weather_scene_action(parameters.d))
    ELSE [raised |-> FALSE, exc |-> <<>>,
          actions |-> << [type |-> name, parameters |-> parameters] >>]

\* a decoder that forwards the name but loses the arguments
DecodeOneNoArguments(tc) ==
    [raised |-> FALSE, exc |-> <<>>,
     actions |-> << [type |-> tc.name, parameters |-> Dict(EmptyDict)] >>]

\* lines 147-187 for one tool call: the actions it appends, or the exception
DecodeOne(tc) == DecodeNamed(tc.name, DecodeParameters(tc))

\* the loop stops at the first exception; otherwise the actions accumulate
JoinDecoded(one, rest) ==
    IF one.raised THEN one
    ELSE [raised |-> rest.raised, exc |-> rest.exc,
          actions |-> one.actions \o rest.actions]

\* the loop over response.tool_calls
RECURSIVE DecodeToolCalls(_)
DecodeToolCalls(tool_calls) ==
    IF tool_calls = <<>> THEN [raised |-> FALSE, exc |-> <<>>, actions |-> <<>>]
    ELSE JoinDecoded(DecodeOne(Head(tool_calls)), DecodeToolCalls(Tail(tool_calls)))

(***************************************************************************)
(* Tables.  providers is tb_ai_providers, a set of rows; conversations is  *)
(* tb_ai_conversations in created_at order; usage is tb_ai_usage_stats;    *)
(* users is tb_users, a set of rows; configs is tb_user_configs in         *)
(* insertion order.                                                        *)
(* last is what the most recent request observed and answered.             *)
(***************************************************************************)
ProviderCodes == {"zhipu", "qwen", "openai"}

\* generate_uuid gives a new row an id no other row has; the model names the
\* id after the (user, provider_code) pair, which uk_user_provider keeps unique
ProviderId(u, c) == <<u, c>>

ProviderIds == {ProviderId(u, c) : u \in Users, c \in ProviderCodes}

NoRequest ==
    [op |-> "none", user |-> "none", status |-> 0, session |-> "none",
     message |-> <<>>, nbefore |-> 0, history |-> <<>>, context |-> <<>>,
     path |-> "none", provider_id |-> <<>>, selected |-> "none",
     rule_actions |-> <<>>, actions |-> <<>>, tool_calls |-> <<>>, exc |-> <<>>,
     content |-> <<>>, tokens_used |-> EmptyDict, usage_before |-> {},
     vendor_tool_calls |-> <<>>, key_length |-> 0,
     token |-> <<>>, data |-> <<>>]

\* the requests that can be inside AIService.chat_completion at one time
Workers == {"w1", "w2"}

\* a request outside _record_usage; done counts its completed calls
IdleCall(done) ==
    [pc |-> "idle", tokens_used |-> EmptyDict,
     stats |-> [request_count |-> 0, input_tokens |-> 0, output_tokens |-> 0,
                total_tokens |-> 0],
     found |-> FALSE, done |-> done]

Init ==
    /\ providers = {}
    /\ conversations = <<>>
    /\ usage = {}
    /\ last = NoRequest
    /\ users = {}
    /\ configs = <<>>
    /\ inflight = [w \in Workers |-> IdleCall(0)]

(***************************************************************************)
(* ai.py: add_provider, set_default_provider, delete_provider              *)
(***************************************************************************)
\* an add_provider without the existence check of lines 54-64
AddProviderUnchecked(u, c) ==
    /\ providers' = providers \cup
          {[id |-> ProviderId(u, c), user_id |-> u, provider_code |-> c,
            is_enabled |-> TRUE, is_default |-> FALSE, priority |-> 0]}
    /\ last' = [NoRequest EXCEPT !.op = "add_provider", !.user = u, !.status = 200]
    /\ UNCHANGED <<conversations, usage, accounts, inflight>>

\* lines 46-90: add_provider
AddProvider(u, c) ==
    /\ IF \E p \in providers : p.user_id = u /\ p.provider_code = c
       THEN /\ providers' = providers
            /\ last' = [NoRequest EXCEPT !.op = "add_provider", !.user = u, !.status = 400]
       ELSE /\ providers' = providers \cup
                  {[id |-> ProviderId(u, c), user_id |-> u, provider_code |-> c,
                    is_enabled |-> TRUE, is_default |-> FALSE, priority |-> 0]}
            /\ last' = [NoRequest EXCEPT !.op = "add_provider", !.user = u, !.status = 200]
    /\ UNCHANGED <<conversations, usage, accounts, inflight>>

\* a set_default_provider that forgets the first UPDATE
ClearDefaultsKeep(tbl, u) == tbl

\* lines 101-105: UPDATE ... SET is_default = false WHERE user_id = u
ClearDefaults(tbl, u) ==
    {IF p.user_id = u THEN [p EXCEPT !.is_default = FALSE] ELSE p : p \in tbl}

\* a second UPDATE that matches on the id alone
MarkDefaultAnyOwner(tbl, u, pid) ==
    {IF p.id = pid THEN [p EXCEPT !.is_default = TRUE] ELSE p : p \in tbl}

\* lines 108-115: UPDATE ... SET is_default = true WHERE id = pid AND user_id = u
MarkDefault(tbl, u, pid) ==
    {IF p.id = pid /\ p.user_id = u THEN [p EXCEPT !.is_default = TRUE] ELSE p : p \in tbl}

SetDefaultProvider(u, pid) ==
    /\ providers' = MarkDefault(ClearDefaults(providers, u), u, pid)
    /\ last' = [NoRequest EXCEPT !.op = "set_default_provider", !.user = u,
                                 !.provider_id = pid, !.status = 200]
    /\ UNCHANGED <<conversations, usage, accounts, inflight>>

\* lines 132-150 for the rows the DELETE matched
DeleteMatched(u, pid, hit) ==
    /\ providers' = providers \ hit
    /\ last' = [NoRequest EXCEPT !.op = "delete_provider", !.user = u,
                                 !.provider_id = pid,
                                 !.status = IF hit = {} THEN 404 ELSE 200]
    /\ UNCHANGED <<conversations, usage, accounts, inflight>>

DeleteProvider(u, pid) ==
    DeleteMatched(u, pid, {p \in providers : p.id = pid /\ p.user_id = u})

(***************************************************************************)
(* The SQLAlchemy session of one request (database.py: autoflush = False): *)
(* added rows stay pending, invisible to the request's own SELECTs, until  *)
(* a commit writes them in the order they were added.                      *)
(***************************************************************************)
\* a commit that writes the pending rows over the table
CommitReplacing(db, pending) == pending

\* session.commit(): the pending rows are written after the committed ones
Commit(db, pending) == db \o pending

NullText == "NULL"
NullInt == -1

ConversationRow(u, s, role, content, model_name, tokens) ==
    [user_id |-> u, session_id |-> s, role |-> role, content |-> content,
     model_name |-> model_name, tokens_used |-> tokens]

(***************************************************************************)
(* ai_service.py and ai/factory.py, ai/providers.py                        *)
(***************************************************************************)
NoProviderPhrase == <<"N", "O", "_", "P", "R", "O", "V", "I", "D", "E", "R">>
NoProviderError == NoProviderPhrase \o <<",", "a", "d", "d">>
ErrUnsupported == <<"U", "N", "S", "U", "P", ":">>
ErrMultiple == <<"M", "U", "L", "T", "I">>

NoRow ==
    [id |-> <<>>, user_id |-> "none", provider_code |-> "none",
     is_enabled |-> FALSE, is_default |-> FALSE, priority |-> 0]

\* lines 24-47 for the enabled default rows and the enabled rows of the user.
\* LIMIT 1 among rows of equal priority returns any one of them.
SelectAmong(defaults, enabled) ==
    IF Cardinality(defaults) > 1 THEN {[kind |-> "multiple", row |-> NoRow]}
    ELSE IF defaults # {} THEN {[kind |-> "row", row |-> p] : p \in defaults}
    ELSE IF enabled = {} THEN {[kind |-> "none", row |-> NoRow]}
    ELSE {[kind |-> "row", row |-> p] :
             p \in {q \in enabled : \A r \in enabled : r.priority <= q.priority}}

\* a selection that leaves out the is_enabled condition of both queries
SelectProviderAnyState(tbl, u) ==
    SelectAmong({p \in tbl : p.user_id = u /\ p.is_default},
                {p \in tbl : p.user_id = u})

\* get_user_default_provider: the rows its two queries can return
SelectProvider(tbl, u) ==
    SelectAmong({p \in tbl : p.user_id = u /\ p.is_enabled /\ p.is_default},
                {p \in tbl : p.user_id = u /\ p.is_enabled})

\* factory.py: AIProviderFactory._providers
RegisteredProviders == {"zhipu", "qwen", "deepseek"}

\* the adapter's chat_completion on a vendor answer v that did not raise:
\* only ZhipuAIProvider copies the tool calls
AdapterResponse(code, v) ==
    [content |-> v.content,
     tokens_used |-> v.tokens,
     tool_calls |-> IF code = "zhipu" THEN v.tool_calls ELSE <<>>]

Today == 1

TokenGet(tokens_used, key) == IF key \in DOMAIN tokens_used THEN tokens_used[key] ELSE 0

SameUsageKey(r, u, code, model) ==
    /\ r.user_id = u
    /\ r.provider_code = code
    /\ r.model_code = model
    /\ r.date = Today

\* INSERT IGNORE of lines 149-163; tb_ai_usage_stats carries a unique key on
\* (user_id, provider_code, model_code, date)
UsageInsertIgnore(usg, u, code, model, tokens_used) ==
    IF \E r \in usg : SameUsageKey(r, u, code, model) THEN usg
    ELSE usg \cup
           {[user_id |-> u, provider_code |-> code, model_code |-> model,
             date |-> Today, request_count |-> 1,
             input_tokens |-> TokenGet(tokens_used, "input_tokens"),
             output_tokens |-> TokenGet(tokens_used, "output_tokens"),
             total_tokens |-> TokenGet(tokens_used, "total_tokens")]}

\* lines 166-186: the select and the update of the row found
UsageIncrement(usg, u, code, model, tokens_used) ==
    {IF SameUsageKey(r, u, code, model)
     THEN [r EXCEPT !.request_count = @ + 1,
                    !.input_tokens = @ + TokenGet(tokens_used, "input_tokens"),
                    !.output_tokens = @ + TokenGet(tokens_used, "output_tokens"),
                    !.total_tokens = @ + TokenGet(tokens_used, "total_tokens")]
     ELSE r : r \in usg}

\* _record_usage, lines 139-188: the insert, then the select and the update
record_usage(usg, u, code, model, tokens_used) ==
    UsageIncrement(UsageInsertIgnore(usg, u, code, model, tokens_used),
                   u, code, model, tokens_used)

NoResponse == [content |-> <<>>, tokens_used |-> EmptyDict, tool_calls |-> <<>>]

ServiceRaised(usg, exc) ==
    [raised |-> TRUE, exc |-> exc, response |-> NoResponse, usage |-> usg,
     committed |-> FALSE]

\* lines 81-89: the usage is recorded and committed, the response returned
ServiceReturned(usg, u, model, code, response) ==
    [raised |-> FALSE, exc |-> <<>>, response |-> response,
     usage |-> record_usage(usg, u, code, model, response.tokens_used),
     committed |-> TRUE]

\* providers.py: the vendor codes for which an adapter class is written
AdapterCodes ==
    {"zhipu", "qwen", "deepseek", "openai", "anthropic", "ernie", "xinghuo"}

\* AIProviderCreate.provider_code is any string: a provider code whose text
\* is the phrase of the no-provider error
PhraseCode == "NO_PROVIDER"

\* the text of a provider code inside a message
CodeText(provider_code) ==
    IF provider_code = PhraseCode THEN NoProviderPhrase ELSE <<provider_code>>

\* factory.py lines 22-40: AIProviderFactory.create_provider; the instance is
\* named by its provider_code property
create_provider(provider_code) ==
    IF provider_code \notin RegisteredProviders
    THEN [raised |-> TRUE, exc |-> ErrUnsupported \o CodeText(provider_code),
          provider_code |-> "none"]
    ELSE [raised |-> FALSE, exc |-> <<>>, provider_code |-> provider_code]

\* AIService.chat_completion for the selection sel and the vendor answer v
ServiceOutcome(usg, u, model, v, sel) ==
    IF sel.kind = "multiple" THEN ServiceRaised(usg, ErrMultiple)
    ELSE IF sel.kind = "none" THEN ServiceRaised(usg, NoProviderError)
    ELSE IF create_provider(sel.row.provider_code).raised
    THEN ServiceRaised(usg, create_provider(sel.row.provider_code).exc)
    ELSE IF v.raises THEN ServiceRaised(usg, v.error)
    ELSE ServiceReturned(usg, u, model, sel.row.provider_code,
                         AdapterResponse(sel.row.provider_code, v))

(***************************************************************************)
(* chat.py: chat_completion                                                *)
(***************************************************************************)
HistoryLimit == 20

SystemPrompt == <<"S", "Y", "S", "T", "E", "M">>
CannedReply == <<"O", "K">>
ErrPrefix == <<"S", "O", "R", "R", "Y", ":">>

\* config.model_name if config else "glm-4-flash": the column default of
\* tb_user_configs.model_name is the same name
ModelName(u) == "glm-4-flash"

\* lines 35-41: the row of the inbound message
UserMessage(u, s, m) == ConversationRow(u, s, "user", m, NullText, NullInt)

\* .limit(20) of an ordered result
FirstRows(rows) ==
    SubSeq(rows, 1, IF Len(rows) < HistoryLimit THEN Len(rows) ELSE HistoryLimit)

\* lines 50-59: WHERE session_id, user_id ORDER BY created_at LIMIT 20, run
\* against the committed table
LoadHistory(db, u, s) ==
    FirstRows(SelectSeq(db, LAMBDA r : r.user_id = u /\ r.session_id = s))

\* lines 65-74 for prev_messages
MessagesFrom(prev_messages, message_content) ==
    (IF prev_messages # <<>>
     THEN << [role |-> "system", content |-> SystemPrompt] >> ELSE <<>>)
    \o [i \in 1..Len(prev_messages) |->
          [role |-> prev_messages[i].role, content |-> prev_messages[i].content]]
    \o << [role |-> "user", content |-> message_content] >>

\* lines 61-74: the messages handed to the provider; history[:-1]
BuildMessages(history, message_content) ==
    MessagesFrom(SubSeq(history, 1, Len(history) - 1), message_content)

\* an except clause that never recognises the no-provider error
IsNoProviderErrorNever(exc) == FALSE

\* line 92: "no provider configured" in str(e)
IsNoProviderError(exc) == IsSubstr(NoProviderPhrase, exc)

\* lines 117-123
FallbackResponse ==
    [content |-> CannedReply, tokens_used |-> [total_tokens |-> 0], tool_calls |-> <<>>]

\* an except branch that rolls the session back before it stores the error
ExceptBranchRollback(db, pending, u, s, exc) ==
    Commit(db, << ConversationRow(u, s, "assistant", ErrPrefix \o exc, NullText, NullInt) >>)

\* an except branch that commits without adding the error message
ExceptBranchSilent(db, pending, u, s, exc) == Commit(db, pending)

\* lines 202-213: add the error message, commit, re-raise
ExceptBranch(db, pending, u, s, exc) ==
    Commit(db, pending \o
               << ConversationRow(u, s, "assistant", ErrPrefix \o exc, NullText, NullInt) >>)

\* the committed table after the service call: _record_usage commits, which
\* flushes the pending user message
DbAfterService(db, u, s, m, committed) ==
    IF committed THEN Commit(db, << UserMessage(u, s, m) >>) ELSE db

\* the rows still pending after the service call
PendingAfterService(u, s, m, committed) ==
    IF committed THEN <<>> ELSE << UserMessage(u, s, m) >>

\* lines 132-142: the assistant reply is added and the session committed
SaveAssistant(db, u, s, m, committed, response) ==
    Commit(DbAfterService(db, u, s, m, committed),
           PendingAfterService(u, s, m, committed) \o
             << ConversationRow(u, s, "assistant", response.content, ModelName(u),
                                TokenGet(response.tokens_used, "total_tokens")) >>)

\* what the request has read and built before the service call
Observed(db, usg, u, s, m, sel) ==
    [NoRequest EXCEPT !.op = "chat", !.user = u, !.session = s, !.message = m,
                      !.nbefore = Len(db),
                      !.history = LoadHistory(db, u, s),
                      !.context = BuildMessages(LoadHistory(db, u, s), m),
                      !.usage_before = usg,
                      !.selected = sel.row.provider_code]

\* lines 79-131 and 202-213: the service call raised something else than the
\* no-provider error
ProviderFailed(db, seen, u, s, m, svc) ==
    [conversations |->
        ExceptBranch(DbAfterService(db, u, s, m, svc.committed),
                     PendingAfterService(u, s, m, svc.committed), u, s, svc.exc),
     usage |-> svc.usage,
     last |-> [seen EXCEPT !.status = 500, !.path = "provider_error",
                           !.exc = svc.exc]]

\* lines 144-213 once the assistant reply is committed (db2) and the tool
\* calls are decoded
Finish(db2, seen, u, s, usg, response, decoded, path) ==
    IF decoded.raised
    THEN [conversations |-> ExceptBranch(db2, <<>>, u, s, decoded.exc),
          usage |-> usg,
          last |-> [seen EXCEPT !.status = 500, !.path = "decode_error",
                                !.exc = decoded.exc,
                                !.content = response.content,
                                !.tool_calls = response.tool_calls,
                                !.tokens_used = response.tokens_used]]
    ELSE [conversations |-> db2,
          usage |-> usg,
          last |-> [seen EXCEPT !.status = 200, !.path = path,
                                !.actions = decoded.actions,
                                !.content = response.content,
                                !.tool_calls = response.tool_calls,
                                !.tokens_used = response.tokens_used]]

\* lines 132-200 for the response of the provider or of the fallback; line
\* 145 starts the actions list afresh
Answer(db, seen, u, s, m, svc, response, path) ==
    Finish(SaveAssistant(db, u, s, m, svc.committed, response), seen, u, s,
           svc.usage, response, DecodeToolCalls(response.tool_calls), path)

\* the whole handler for user u, session s, message m, provider selection
\* sel and the outcome svc of the service call: the tables it leaves and
\* what it answered
ChatOutcome(db, usg, u, s, m, sel, svc) ==
    IF svc.raised /\ IsNoProviderError(svc.exc)
    THEN Answer(db, [Observed(db, usg, u, s, m, sel)
                       EXCEPT !.rule_actions = RuleActions(m)],
                u, s, m, svc, FallbackResponse, "fallback")
    ELSE IF svc.raised
    THEN ProviderFailed(db, Observed(db, usg, u, s, m, sel), u, s, m, svc)
    ELSE Answer(db, Observed(db, usg, u, s, m, sel), u, s, m, svc,
                svc.response, "provider")

ChatCompletion(u, s, m, v) ==
    \E sel \in SelectProvider(providers, u) :
    \E svc \in {ServiceOutcome(usage, u, ModelName(u), v, sel)} :
    \E out \in {ChatOutcome(conversations, usage, u, s, m, sel, svc)} :
        /\ conversations' = out.conversations
        /\ usage' = out.usage
        /\ last' = out.last
        /\ UNCHANGED <<providers, accounts, inflight>>

HistoryPageLimit == 50

\* lines 560-569: WHERE session_id, user_id ORDER BY created_at LIMIT 50
HistoryPage(db, u, s) ==
    SubSeq(SelectSeq(db, LAMBDA r : r.user_id = u /\ r.session_id = s), 1,
           IF Cardinality({i \in 1..Len(db) : db[i].user_id = u /\ db[i].session_id = s})
                < HistoryPageLimit
           THEN Cardinality({i \in 1..Len(db) : db[i].user_id = u /\ db[i].session_id = s})
           ELSE HistoryPageLimit)

\* lines 553-581: get_chat_history reads and changes nothing
GetChatHistory(u, s) ==
    /\ last' = [NoRequest EXCEPT !.op = "get_chat_history", !.user = u,
                                 !.session = s, !.status = 200,
                                 !.nbefore = Len(conversations),
                                 !.history = HistoryPage(conversations, u, s)]
    /\ UNCHANGED <<providers, conversations, usage, accounts, inflight>>

\* a DELETE that filters on the session id alone
DeleteHistoryOfSession(db, u, s) == SelectSeq(db, LAMBDA r : r.session_id # s)

\* lines 593-599: DELETE WHERE session_id = s AND user_id = u
DeleteHistory(db, u, s) ==
    SelectSeq(db, LAMBDA r : ~(r.session_id = s /\ r.user_id = u))

\* lines 584-605: clear_chat_history
ClearChatHistory(u, s) ==
    /\ conversations' = DeleteHistory(conversations, u, s)
    /\ last' = [NoRequest EXCEPT !.op = "clear_chat_history", !.user = u,
                                 !.session = s, !.status = 200,
                                 !.nbefore = Len(conversations)]
    /\ UNCHANGED <<providers, usage, accounts, inflight>>

(***************************************************************************)
(* Inputs of the requests and the specifications                           *)
(***************************************************************************)
MsgHello == <<"h", "i">>
MsgShanghai == <<"g", "o", " ">> \o zhShanghai
MsgBeijing == <<"T", "o", " ">> \o enBeijing \o <<" ">> \o zhShanghai

Messages == {MsgHello, MsgBeijing}

Reply == <<"r", "e", "p", "l", "y">>
VendorDown == <<"5", "0", "3">>

VRaise ==
    [raises |-> TRUE, error |-> VendorDown, content |-> <<>>,
     tokens |-> [input_tokens |-> 0, output_tokens |-> 0, total_tokens |-> 0],
     tool_calls |-> <<>>]
VPlain ==
    [raises |-> FALSE, error |-> <<>>, content |-> Reply,
     tokens |-> [input_tokens |-> 3, output_tokens |-> 2, total_tokens |-> 5],
     tool_calls |-> <<>>]
VTool ==
    [raises |-> FALSE, error |-> <<>>, content |-> <<>>,
     tokens |-> [input_tokens |-> 4, output_tokens |-> 3, total_tokens |-> 7],
     tool_calls |-> << [name |-> "camera_flyTo", arguments |-> ArgHeight] >>]
VWeatherNoCity ==
    [raises |-> FALSE, error |-> <<>>, content |-> Reply,
     tokens |-> [input_tokens |-> 3, output_tokens |-> 2, total_tokens |-> 5],
     tool_calls |-> << [name |-> "query_and_apply_weather", arguments |-> ArgEmpty] >>]

VendorResults == {VRaise, VPlain, VTool, VWeatherNoCity}

ChatCodes == {"zhipu", "openai"}
ChatProviderIds == {ProviderId(u, c) : u \in Users, c \in ChatCodes}

UsageRoom == \A r \in usage : r.request_count < MaxRequests

\* the chat orchestrator together with the provider configuration
Next ==
    \/ \E u \in Users, c \in ChatCodes : AddProvider(u, c)
    \/ \E u \in Users, pid \in ChatProviderIds : DeleteProvider(u, pid)
    \/ /\ Len(conversations) + 2 <= MaxConv
       /\ UsageRoom
       /\ \E u \in Users, s \in Sessions, m \in Messages, v \in VendorResults :
             ChatCompletion(u, s, m, v)

Spec == Init /\ [][Next]_vars

\* the provider configuration endpoints alone
NextProv ==
    \/ \E u \in Users, c \in ProviderCodes : AddProvider(u, c)
    \/ \E u \in Users, pid \in ProviderIds : SetDefaultProvider(u, pid)
    \/ \E u \in Users, pid \in ProviderIds : DeleteProvider(u, pid)

SpecProv == Init /\ [][NextProv]_vars

\* one session that grows past the history window, without a provider
NextHist ==
    /\ Len(conversations) + 2 <= MaxConvHist
    /\ \E m \in Messages : ChatCompletion("u1", "s1", m, VPlain)

SpecHist == Init /\ [][NextHist]_vars

\* answers of a tool-calling vendor: every list of at most MaxToolCalls calls
MaxToolCalls == 2

ToolNames == {"camera_flyTo", "set_weather", "query_and_apply_weather"}

ArgTexts ==
    {ArgEmpty, ArgBad, ArgList, ArgShanghai, ArgHangFuzzy, ArgParis,
     ArgParisAt, ArgCoordsOnly, ArgHeight}

ToolCalls == [name : ToolNames, arguments : ArgTexts]

ToolCallLists == UNION {[1..n -> ToolCalls] : n \in 0..MaxToolCalls}

ToolVendorResults ==
    {[raises |-> FALSE, error |-> <<>>, content |-> Reply,
      tokens |-> [input_tokens |-> 3, output_tokens |-> 2, total_tokens |-> 5],
      tool_calls |-> tcs] : tcs \in ToolCallLists}

NextTools ==
    \/ AddProvider("u1", "zhipu")
    \/ /\ Len(conversations) + 2 <= MaxConvTools
       /\ UsageRoom
       /\ \E v \in ToolVendorResults : ChatCompletion("u1", "s1", MsgHello, v)

SpecTools == Init /\ [][NextTools]_vars

\* the conversation log of two users over two sessions: chat_completion,
\* get_chat_history and clear_chat_history
MaxConvLog == 6

LogSessions == {"s1", "s2"}

NextLog ==
    \/ AddProvider("u1", "zhipu")
    \/ /\ Len(conversations) + 2 <= MaxConvLog
       /\ UsageRoom
       /\ \E u \in Users, s \in LogSessions, v \in {VPlain, VRaise} :
             ChatCompletion(u, s, MsgHello, v)
    \/ \E u \in Users, s \in LogSessions : GetChatHistory(u, s)
    \/ \E u \in Users, s \in LogSessions : ClearChatHistory(u, s)

SpecLog == Init /\ [][NextLog]_vars

\* providers.py: chat_completion of the adapter registered under code, applied
\* to a vendor answer v that did not raise
AdapterChatCompletion(code, v) ==
    /\ last' = [NoRequest EXCEPT !.op = "adapter_chat_completion",
                                 !.selected = code,
                                 !.vendor_tool_calls = v.tool_calls,
                                 !.tool_calls = AdapterResponse(code, v).tool_calls,
                                 !.content = AdapterResponse(code, v).content,
                                 !.tokens_used = AdapterResponse(code, v).tokens_used]
    /\ UNCHANGED <<providers, conversations, usage, accounts, inflight>>

\* every registered adapter on every tool-calling vendor answer
NextAdapters ==
    \E code \in RegisteredProviders, v \in ToolVendorResults :
        AdapterChatCompletion(code, v)

SpecAdapters == Init /\ [][NextAdapters]_vars

(***************************************************************************)
(* core/security.py: the Fernet suite and encrypt_api_key, decrypt_api_key *)
(***************************************************************************)
\* longest ENCRYPTION_KEY setting drawn (44 is a generated Fernet key)
MaxKeyLen == 44

\* bytes a Fernet key must decode to
FernetKeyBytes == 32

\* line 16: key.encode()[:32].ljust(32, b'=')[:32] keeps at most 32 characters
\* of the setting; the padding it adds carries no data
KeyDataChars(n) == IF n < 32 THEN n ELSE 32

\* base64.urlsafe_b64decode of a text with n data characters: bytes obtained
B64DecodedLength(n) == (n * 6) \div 8

\* Fernet(key): ValueError unless the key decodes to 32 bytes
FernetAccepts(n) == B64DecodedLength(KeyDataChars(n)) = FernetKeyBytes

\* line 17, Fernet(fernet): the argument is a Fernet instance, which
\* base64.urlsafe_b64decode rejects with TypeError
FernetAcceptsSuite == FALSE

\* the module's top-level statements (lines 16-17) run without raising
SecurityModuleLoads(n) == FernetAccepts(n) /\ FernetAcceptsSuite

TokenPrefix == <<"g", "A", "A">>
ErrSecurityImport == <<"F", "e", "r", "n", "e", "t", " ", "k", "e", "y">>

\* lines 30-33: fernet_suite.encrypt(api_key)
encrypt_api_key(k) == TokenPrefix \o k

\* fernet_suite.decrypt: InvalidToken unless v is a token of the suite
IsToken(v) ==
    Len(v) >= Len(TokenPrefix) /\ SubSeq(v, 1, Len(TokenPrefix)) = TokenPrefix

\* lines 36-43: decrypt, and the stored value itself when decrypt raises
decrypt_api_key(v) ==
    IF IsToken(v) THEN SubSeq(v, Len(TokenPrefix) + 1, Len(v)) ELSE v

ApiKeys == {<<"s", "k", "-", "1">>, <<"k">>, <<"g", "A", "x">>}

\* import app.core.security under an ENCRYPTION_KEY of n characters, then
\* decrypt_api_key(encrypt_api_key(k))
KeyRoundTrip(n, k) ==
    /\ last' = IF SecurityModuleLoads(n)
               THEN [NoRequest EXCEPT !.op = "key_round_trip", !.key_length = n,
                                      !.message = k, !.status = 200,
                                      !.content = decrypt_api_key(encrypt_api_key(k))]
               ELSE [NoRequest EXCEPT !.op = "key_round_trip", !.key_length = n,
                                      !.message = k, !.status = 500,
                                      !.exc = ErrSecurityImport]
    /\ UNCHANGED <<providers, conversations, usage, accounts, inflight>>

\* import app.core.security, then decrypt_api_key(v) of a stored value that
\* was never encrypted
KeyPassThrough(n, v) ==
    /\ last' = IF SecurityModuleLoads(n)
               THEN [NoRequest EXCEPT !.op = "key_pass_through", !.key_length = n,
                                      !.message = v, !.status = 200,
                                      !.content = decrypt_api_key(v)]
               ELSE [NoRequest EXCEPT !.op = "key_pass_through", !.key_length = n,
                                      !.message = v, !.status = 500,
                                      !.exc = ErrSecurityImport]
    /\ UNCHANGED <<providers, conversations, usage, accounts, inflight>>

NextKeys ==
    \/ \E n \in 0..MaxKeyLen, k \in ApiKeys : KeyRoundTrip(n, k)
    \/ \E n \in 0..MaxKeyLen, v \in ApiKeys : KeyPassThrough(n, v)

SpecKeys == Init /\ [][NextKeys]_vars

(***************************************************************************)
(* auth.py: register; users.py: get_user_config, update_user_config        *)
(***************************************************************************)
Emails == {"e1", "e2"}

\* the column defaults of tb_user_configs (models/__init__.py lines 45-50)
DefaultConfig(u) ==
    [user_id |-> u, model_name |-> "glm-4-flash", auto_execute |-> FALSE]

\* lines 68-73 of auth.py: the default configuration is added and committed;
\* a database error on that commit leaves the user without one
ConfigsAfterRegister(cfgs, name, config_fails) ==
    IF config_fails THEN cfgs ELSE Append(cfgs, DefaultConfig(name))

\* register; generate_uuid gives the user a new id, which the model names
\* after the username that uk on username keeps unique
Register(name, email, config_fails) ==
    IF (\E r \in users : r.username = name) \/ (\E r \in users : r.email = email)
    THEN /\ last' = [NoRequest EXCEPT !.op = "register", !.user = name, !.status = 400]
         /\ UNCHANGED <<providers, conversations, usage, accounts, inflight>>
    ELSE /\ users' = users \cup
               {[id |-> name, username |-> name, email |-> email, status |-> 1,
                 is_deleted |-> FALSE]}
         /\ configs' = ConfigsAfterRegister(configs, name, config_fails)
         /\ last' = [NoRequest EXCEPT !.op = "register", !.user = name,
                                      !.nbefore = Len(configs),
                                      !.status = IF config_fails THEN 500 ELSE 200]
         /\ UNCHANGED <<providers, conversations, usage, inflight>>

\* positions of the configuration rows of user u
ConfigRowsOf(cfgs, u) == {i \in 1..Len(cfgs) : cfgs[i].user_id = u}

\* the data of the response of get_user_config
ConfigData(row) == [model_name |-> row.model_name, auto_execute |-> row.auto_execute]

\* a get_user_config that adds a default row whatever it found
ConfigsAfterReadAlways(cfgs, u) == Append(cfgs, DefaultConfig(u))

\* users.py lines 203-208: the default row is added when none was found
ConfigsAfterRead(cfgs, u) ==
    IF ConfigRowsOf(cfgs, u) = {} THEN Append(cfgs, DefaultConfig(u)) ELSE cfgs

\* users.py lines 193-222 for the rows found: scalar_one_or_none raises on
\* more than one row
GetUserConfigFound(u, found) ==
    IF Cardinality(found) > 1
    THEN /\ last' = [NoRequest EXCEPT !.op = "get_user_config", !.user = u,
                                      !.nbefore = Len(configs), !.status = 500]
         /\ UNCHANGED <<providers, conversations, usage, accounts, inflight>>
    ELSE /\ configs' = ConfigsAfterRead(configs, u)
         /\ last' = [NoRequest EXCEPT
                       !.op = "get_user_config", !.user = u,
                       !.nbefore = Len(configs), !.status = 200,
                       !.data = IF found = {} THEN ConfigData(DefaultConfig(u))
                                ELSE ConfigData(configs[CHOOSE i \in found : TRUE])]
         /\ UNCHANGED <<providers, conversations, usage, users, inflight>>

GetUserConfig(u) == GetUserConfigFound(u, ConfigRowsOf(configs, u))

\* bodies of update_user_config: the keys present are assigned
ConfigUpdates ==
    {EmptyDict, [model_name |-> "glm-4"], [auto_execute |-> TRUE]}

\* users.py lines 240-253 on one row
ApplyConfigData(row, config_data) ==
    [k \in DOMAIN row |-> IF k \in DOMAIN config_data THEN config_data[k] ELSE row[k]]

\* users.py lines 225-262 for the rows found
UpdateUserConfigFound(u, config_data, found) ==
    IF Cardinality(found) > 1
    THEN /\ last' = [NoRequest EXCEPT !.op = "update_user_config", !.user = u,
                                      !.nbefore = Len(configs), !.status = 500]
         /\ UNCHANGED <<providers, conversations, usage, accounts, inflight>>
    ELSE /\ configs' =
              IF found = {}
              THEN Append(configs, ApplyConfigData(DefaultConfig(u), config_data))
              ELSE [i \in 1..Len(configs) |->
                      IF i \in found THEN ApplyConfigData(configs[i], config_data)
                      ELSE configs[i]]
         /\ last' = [NoRequest EXCEPT !.op = "update_user_config", !.user = u,
                                      !.nbefore = Len(configs), !.status = 200]
         /\ UNCHANGED <<providers, conversations, usage, users, inflight>>

UpdateUserConfig(u, config_data) ==
    UpdateUserConfigFound(u, config_data, ConfigRowsOf(configs, u))

(***************************************************************************)
(* core/deps.py: get_current_user; core/security.py: decode_token          *)
(***************************************************************************)
\* "none" stands for a payload without the sub claim, "ghost" for an id that
\* no user row carries
TokenSubjects == Users \cup {"ghost", "none"}

\* a bearer token: whether its signature verifies, whether its exp has
\* passed, the sub of its payload and its type claim ("none" when the
\* payload has no type)
Tokens == [signed : BOOLEAN, expired : BOOLEAN, sub : TokenSubjects,
           type : {"none", "refresh"}]

\* security.py lines 46-56: the token login hands out for requests
create_access_token(sub) ==
    [signed |-> TRUE, expired |-> FALSE, sub |-> sub, type |-> "none"]

\* security.py lines 59-65: the same key and algorithm, type = refresh
create_refresh_token(sub) ==
    [signed |-> TRUE, expired |-> FALSE, sub |-> sub, type |-> "refresh"]

\* security.py lines 68-74: the payload, or None on JWTError
decode_token(token) ==
    IF token.signed /\ ~token.expired
    THEN [ok |-> TRUE, sub |-> token.sub, type |-> token.type]
    ELSE [ok |-> FALSE, sub |-> "none", type |-> "none"]

\* a user query that forgets the is_deleted filter
FindUserAnyRow(tbl, user_id) == {r \in tbl : r.id = user_id}

\* deps.py lines 36-39: WHERE id = user_id AND is_deleted = false
FindUser(tbl, user_id) == {r \in tbl : r.id = user_id /\ ~r.is_deleted}

\* deps.py lines 27-51 for the decoded payload: the status answered
AuthStatus(tbl, payload) ==
    IF ~payload.ok THEN 401
    ELSE IF payload.sub = "none" THEN 401
    ELSE IF FindUser(tbl, payload.sub) = {} THEN 401
    ELSE IF \E r \in FindUser(tbl, payload.sub) : r.status # 1 THEN 403
    ELSE 200

GetCurrentUser(token) ==
    /\ last' = [NoRequest EXCEPT !.op = "get_current_user", !.token = token,
                                 !.status = AuthStatus(users, decode_token(token)),
                                 !.user = IF AuthStatus(users, decode_token(token)) = 200
                                          THEN token.sub ELSE "none"]
    /\ UNCHANGED <<providers, conversations, usage, accounts, inflight>>

\* tb_users.status set to 0 by an administrator of the database
DisableUser(u) ==
    /\ \E r \in users : r.id = u /\ r.status = 1
    /\ users' = {IF r.id = u THEN [r EXCEPT !.status = 0] ELSE r : r \in users}
    /\ last' = [NoRequest EXCEPT !.op = "disable_user", !.user = u]
    /\ UNCHANGED <<providers, conversations, usage, configs, inflight>>

\* tb_users.is_deleted set by an administrator of the database
SoftDeleteUser(u) ==
    /\ \E r \in users : r.id = u /\ ~r.is_deleted
    /\ users' = {IF r.id = u THEN [r EXCEPT !.is_deleted = TRUE] ELSE r : r \in users}
    /\ last' = [NoRequest EXCEPT !.op = "soft_delete_user", !.user = u]
    /\ UNCHANGED <<providers, conversations, usage, configs, inflight>>

\* the caller passes get_current_user
Authenticated(u) == \E r \in users : r.id = u /\ ~r.is_deleted /\ r.status = 1

\* registration and the configuration endpoints
MaxConfigs == 3

NextAccounts ==
    \/ \E name \in Users, email \in Emails, config_fails \in BOOLEAN :
          Len(configs) < MaxConfigs /\ Register(name, email, config_fails)
    \/ \E u \in Users :
          Authenticated(u) /\ Len(configs) < MaxConfigs /\ GetUserConfig(u)
    \/ \E u \in Users, config_data \in ConfigUpdates :
          Authenticated(u) /\ Len(configs) < MaxConfigs /\ UpdateUserConfig(u, config_data)

SpecAccounts == Init /\ [][NextAccounts]_vars

\* registration, the administrator's changes and authentication
NextAuth ==
    \/ \E name \in Users, email \in Emails : Register(name, email, FALSE)
    \/ \E u \in Users : DisableUser(u)
    \/ \E u \in Users : SoftDeleteUser(u)
    \/ \E token \in Tokens : GetCurrentUser(token)

SpecAuth == Init /\ [][NextAuth]_vars

(***************************************************************************)
(* services/weather_service.py and services/mcp/weather_client.py:         *)
(* _parse_weather_data and _map_to_cesium_condition                        *)
(***************************************************************************)
\* weather_service.py lines 197-213
service_condition_map ==
    [Clear |-> "clear", Clouds |-> "cloudy", Rain |-> "rain", Drizzle |-> "rain",
     Thunderstorm |-> "rain", Snow |-> "snow", Mist |-> "fog", Fog |-> "fog",
     Haze |-> "fog", Smoke |-> "fog", Dust |-> "fog", Sand |-> "fog",
     Ash |-> "fog", Squall |-> "rain", Tornado |-> "rain"]

\* mcp/weather_client.py lines 261-277
client_condition_map ==
    [Clear |-> "clear", Clouds |-> "cloudy", Rain |-> "rain", Drizzle |-> "rain",
     Thunderstorm |-> "rain", Snow |-> "snow", Mist |-> "fog", Fog |-> "fog",
     Haze |-> "fog", Smoke |-> "fog", Dust |-> "fog", Sand |-> "fog",
     Ash |-> "fog", Squall |-> "rain", Tornado |-> "rain"]

\* dict.get(key, default)
DictGet(d, key, default) == IF key \in DOMAIN d THEN d[key] ELSE default

\* a mapping that hands an unknown condition through
service_map_passing(condition) ==
    DictGet(service_condition_map, condition, condition)

\* WeatherService._map_to_cesium_condition
service_map_to_cesium_condition(condition) ==
    DictGet(service_condition_map, condition, "clear")

\* OpenWeatherMapClient._map_to_cesium_condition
client_map_to_cesium_condition(condition) ==
    DictGet(client_condition_map, condition, "clear")

\* values of weather[0].main in a vendor answer; "absent" is a missing key
VendorConditions ==
    DOMAIN service_condition_map \cup
    {"absent", "clear", "RAIN", "Fogg", "", "Hail", "Sleet", "Windy"}

VendorTemperatures == {-5, 18, 31}
\* values of visibility in a vendor answer; -1 is a missing key
VendorVisibilities == {-1, 200, 10000}

\* weather_info.get("main", "Clear")
ConditionOf(main) == IF main = "absent" THEN "Clear" ELSE main

\* _parse_weather_data of either class, for the fields the model keeps
ParsedWeather(cesium_condition, main, temp, visibility) ==
    [condition |-> ConditionOf(main),
     cesium_condition |-> cesium_condition,
     temperature |-> temp,
     visibility |-> IF visibility = -1 THEN 10000 ELSE visibility]

\* the same vendor answer parsed by the weather service and by the MCP client
ParseWeatherData(main, temp, visibility) ==
    /\ last' = [NoRequest EXCEPT
                  !.op = "parse_weather_data",
                  !.message = <<main>>,
                  !.data = [service |->
                              ParsedWeather(service_map_to_cesium_condition(ConditionOf(main)),
                                            main, temp, visibility),
                            client |->
                              ParsedWeather(client_map_to_cesium_condition(ConditionOf(main)),
                                            main, temp, visibility)]]
    /\ UNCHANGED <<providers, conversations, usage, accounts, inflight>>

NextWeather ==
    \E main \in VendorConditions, temp \in VendorTemperatures,
       visibility \in VendorVisibilities : ParseWeatherData(main, temp, visibility)

SpecWeather == Init /\ [][NextWeather]_vars

(***************************************************************************)
(* api/buildings.py: search_in_circle; api/spatial_analysis.py:            *)
(* buffer_analysis.  Positions are metres on a local plane and a distance  *)
(* is compared through its square.                                         *)
(***************************************************************************)
\* rows of tb_buildings; height 0 and risk_level -1 stand for NULL
BuildingTable ==
    {[id |-> "b1", x |-> 0, y |-> 1, height |-> 30, category |-> "office", risk_level |-> 0],
     [id |-> "b2", x |-> 2, y |-> 0, height |-> 120, category |-> "home", risk_level |-> 2],
     [id |-> "b3", x |-> 2, y |-> 2, height |-> 0, category |-> "office", risk_level |-> -1],
     [id |-> "b4", x |-> 0, y |-> 3, height |-> 80, category |-> "home", risk_level |-> 4]}

\* database.py lines 46-53: get_db yields an AsyncSession, which has no
\* query method; db.query(Building) raises AttributeError
SessionHasQuery == FALSE

ErrNoQuery == <<"n", "o", " ", "q", "u", "e", "r", "y">>

\* calculate_distance raises ValueError (math domain error) for a center
\* that is not finite: math.sin(inf)
RowRaises(b, center) == center.inf

ErrMathDomain == <<"m", "a", "t", "h">>

\* calculate_distance(b, center) <= radius
WithinRadius(b, center, radius) ==
    (b.x - center.x) * (b.x - center.x) + (b.y - center.y) * (b.y - center.y)
      <= radius * radius

\* buildings.py lines 129-133: the filters of search_in_circle; min_height 0
\* and category "none" stand for an omitted parameter
CirclePasses(b, min_height, category) ==
    /\ ~(min_height # 0 /\ b.height # 0 /\ b.height < min_height)
    /\ ~(category # "none" /\ b.category # category)

\* spatial_analysis.py lines 90-96: the filters of buffer_analysis; a NULL
\* risk_level makes the comparison raise and the building is skipped
BufferPasses(b, min_height, category, risk_level) ==
    /\ CirclePasses(b, min_height, category)
    /\ risk_level = -1 \/ (b.risk_level # -1 /\ b.risk_level >= risk_level)

\* the ids of the buildings search_in_circle returns
CircleResult(tbl, center, radius, min_height, category) ==
    {b.id : b \in {c \in tbl : WithinRadius(c, center, radius)
                                /\ CirclePasses(c, min_height, category)}}

\* the ids of the buildings buffer_analysis returns
BufferResult(tbl, center, radius, min_height, category, risk_level) ==
    {b.id : b \in {c \in tbl : ~RowRaises(c, center)
                                /\ WithinRadius(c, center, radius)
                                /\ BufferPasses(c, min_height, category, risk_level)}}

\* one request: the status and the ids returned
SpatialAnswer(result) ==
    IF SessionHasQuery THEN [status |-> 200, exc |-> <<>>, ids |-> result]
    ELSE [status |-> 500, exc |-> ErrNoQuery, ids |-> {}]

\* search_in_circle has no try around a building: the first building whose
\* processing raises ends the request
CircleAnswer(tbl, center, result) ==
    IF ~SessionHasQuery THEN [status |-> 500, exc |-> ErrNoQuery, ids |-> {}]
    ELSE IF \E b \in tbl : RowRaises(b, center)
         THEN [status |-> 500, exc |-> ErrMathDomain, ids |-> {}]
         ELSE [status |-> 200, exc |-> <<>>, ids |-> result]

\* a center; inf marks a coordinate given as "inf", which the float
\* parameter accepts
Centers == {[x |-> 0, y |-> 0, inf |-> FALSE], [x |-> 2, y |-> 1, inf |-> FALSE],
            [x |-> 0, y |-> 0, inf |-> TRUE]}
MaxRadius == 3
HeightFilters == {0, 50}
CategoryFilters == {"none", "office"}
RiskFilters == {-1, 2}

\* search_in_circle asked twice over the same table, with radius r1 and r2
SearchInCircleTwice(center, r1, r2, min_height, category) ==
    /\ last' = [NoRequest EXCEPT
                  !.op = "search_in_circle",
                  !.data = [center |-> center, r1 |-> r1, r2 |-> r2,
                            min_height |-> min_height, category |-> category,
                            first |-> CircleAnswer(BuildingTable, center,
                                        CircleResult(BuildingTable, center, r1,
                                                     min_height, category)),
                            second |-> CircleAnswer(BuildingTable, center,
                                         CircleResult(BuildingTable, center, r2,
                                                      min_height, category))]]
    /\ UNCHANGED <<providers, conversations, usage, accounts, inflight>>

\* buffer_analysis asked twice over the same table, with radius r1 and r2
BufferAnalysisTwice(center, r1, r2, min_height, category, risk_level) ==
    /\ last' = [NoRequest EXCEPT
                  !.op = "buffer_analysis",
                  !.data = [center |-> center, r1 |-> r1, r2 |-> r2,
                            min_height |-> min_height, category |-> category,
                            risk_level |-> risk_level,
                            first |-> SpatialAnswer(BufferResult(BuildingTable, center, r1,
                                                      min_height, category, risk_level)),
                            second |-> SpatialAnswer(BufferResult(BuildingTable, center, r2,
                                                      min_height, category, risk_level))]]
    /\ UNCHANGED <<providers, conversations, usage, accounts, inflight>>

\* spatial_analysis.py lines 192-255: viewshed_analysis
VisibleFar == 500
ObserverHeights == {50, 100}

IsVisible(b, center, observer_height) ==
    \/ b.height < observer_height
    \/ (b.x - center.x) * (b.x - center.x) + (b.y - center.y) * (b.y - center.y)
         > VisibleFar * VisibleFar

ViewshedRows(tbl, center, radius) ==
    {b \in tbl : ~RowRaises(b, center) /\ WithinRadius(b, center, radius)}

ViewshedAnswer(tbl, center, observer_height, radius) ==
    IF SessionHasQuery
    THEN [status |-> 200, exc |-> <<>>,
          ids |-> {b.id : b \in ViewshedRows(tbl, center, radius)},
          visible |-> {b.id : b \in {c \in ViewshedRows(tbl, center, radius) :
                                       IsVisible(c, center, observer_height)}}]
    ELSE [status |-> 500, exc |-> ErrNoQuery, ids |-> {}, visible |-> {}]

ViewshedAnalysis(center, observer_height, radius) ==
    /\ last' = [NoRequest EXCEPT
                  !.op = "viewshed_analysis",
                  !.data = [center |-> center, radius |-> radius,
                            observer_height |-> observer_height,
                            answer |-> ViewshedAnswer(BuildingTable, center,
                                                      observer_height, radius)]]
    /\ UNCHANGED <<providers, conversations, usage, accounts, inflight>>

\* spatial_analysis.py lines 284-363: accessibility_analysis; speeds in
\* tenths of a metre per minute
MaxTimeLimit == 30
Modes == {"driving", "walking", "transit", "cycling"}
MaxIntervals == 4

speeds == [driving |-> 8333, walking |-> 833, transit |-> 4167]

SpeedOf(mode) == IF mode \in DOMAIN speeds THEN speeds[mode] ELSE speeds["driving"]

MinInt(a, b) == IF a <= b THEN a ELSE b

\* the loop of lines 299-324: i = 1..num_intervals, left at the first
\* interval_time above time_limit
Isochrones(speed, time_limit) ==
    [i \in 1..Cardinality({k \in 1..MinInt(MaxIntervals, (time_limit \div 5) + 1) :
                              k * 5 <= time_limit})
       |-> [time |-> i * 5, distance |-> speed * (i * 5)]]

\* calculate_distance(b, origin) <= max_distance, max_distance in tenths
\* (the square of tenths / 10, computed from its whole and tenth parts)
WithinTenths(b, origin, tenths) ==
    (b.x - origin.x) * (b.x - origin.x) + (b.y - origin.y) * (b.y - origin.y)
      <= (tenths \div 10) * (tenths \div 10)
           + (20 * (tenths \div 10) * (tenths % 10) + (tenths % 10) * (tenths % 10)) \div 100

ReachableCount(tbl, origin, max_distance) ==
    Cardinality({b \in tbl : ~RowRaises(b, origin)
                               /\ WithinTenths(b, origin, max_distance)})

AccessibilityAnswer(tbl, origin, mode, time_limit) ==
    IF SessionHasQuery
    THEN [status |-> 200, exc |-> <<>>,
          isochrones |-> Isochrones(SpeedOf(mode), time_limit),
          reachable_pois |-> ReachableCount(tbl, origin, SpeedOf(mode) * time_limit)]
    ELSE [status |-> 500, exc |-> ErrNoQuery, isochrones |-> <<>>, reachable_pois |-> 0]

AccessibilityAnalysis(origin, mode, time_limit) ==
    /\ last' = [NoRequest EXCEPT
                  !.op = "accessibility_analysis",
                  !.data = [center |-> origin, mode |-> mode, time_limit |-> time_limit,
                            answer |-> AccessibilityAnswer(BuildingTable, origin,
                                                           mode, time_limit)]]
    /\ UNCHANGED <<providers, conversations, usage, accounts, inflight>>

NextSpatial ==
    \/ \E center \in Centers, r1 \in 1..MaxRadius, r2 \in 1..MaxRadius,
          min_height \in HeightFilters, category \in CategoryFilters :
          r1 <= r2 /\ SearchInCircleTwice(center, r1, r2, min_height, category)
    \/ \E center \in Centers, r1 \in 1..MaxRadius, r2 \in 1..MaxRadius,
          min_height \in HeightFilters, category \in CategoryFilters,
          risk_level \in RiskFilters :
          r1 <= r2 /\ BufferAnalysisTwice(center, r1, r2, min_height, category, risk_level)
    \/ \E center \in Centers, observer_height \in ObserverHeights, radius \in 1..MaxRadius :
          ViewshedAnalysis(center, observer_height, radius)
    \/ \E origin \in Centers, mode \in Modes, time_limit \in 1..MaxTimeLimit :
          AccessibilityAnalysis(origin, mode, time_limit)

SpecSpatial == Init /\ [][NextSpatial]_vars

(***************************************************************************)
(* services/ai_service.py: _record_usage as two requests run it.  Each     *)
(* request has its own session; a request gives way to the other one at    *)
(* each awaited statement.                                                 *)
(***************************************************************************)
MaxCalls == 3

RaceUser == "u1"
RaceCode == "zhipu"
RaceModel == "glm-4-flash"
RaceTokens == {[input_tokens |-> 1, output_tokens |-> 2, total_tokens |-> 3]}

\* lines 166-174: the rows the select of _record_usage finds
UsageSelect(usg, u, code, model) == {r \in usg : SameUsageKey(r, u, code, model)}

CountersOf(r) ==
    [request_count |-> r.request_count, input_tokens |-> r.input_tokens,
     output_tokens |-> r.output_tokens, total_tokens |-> r.total_tokens]

\* an update that adds to the columns inside the database
UsageUpdateInPlace(usg, u, code, model, stats, tokens_used) ==
    UsageIncrement(usg, u, code, model, tokens_used)

\* lines 177-186: the update writes the values computed from the row read
UsageUpdate(usg, u, code, model, stats, tokens_used) ==
    {IF SameUsageKey(r, u, code, model)
     THEN [r EXCEPT !.request_count = stats.request_count + 1,
                    !.input_tokens = stats.input_tokens + TokenGet(tokens_used, "input_tokens"),
                    !.output_tokens = stats.output_tokens + TokenGet(tokens_used, "output_tokens"),
                    !.total_tokens = stats.total_tokens + TokenGet(tokens_used, "total_tokens")]
     ELSE r : r \in usg}

\* ai_service.py lines 73-82: the provider answered, _record_usage is called
BeginRecordUsage(w, tokens_used) ==
    /\ inflight[w].pc = "idle"
    /\ inflight' = [inflight EXCEPT ![w].pc = "insert", ![w].tokens_used = tokens_used]
    /\ UNCHANGED <<providers, conversations, usage, last, accounts>>

\* lines 149-163: INSERT IGNORE
InsertIgnoreStep(w) ==
    /\ inflight[w].pc = "insert"
    /\ usage' = UsageInsertIgnore(usage, RaceUser, RaceCode, RaceModel,
                                  inflight[w].tokens_used)
    /\ inflight' = [inflight EXCEPT ![w].pc = "select"]
    /\ UNCHANGED <<providers, conversations, last, accounts>>

\* lines 166-174: the select and scalar_one_or_none
SelectStep(w) ==
    /\ inflight[w].pc = "select"
    /\ \E rows \in {UsageSelect(usage, RaceUser, RaceCode, RaceModel)} :
          inflight' = [inflight EXCEPT
                         ![w].pc = "update",
                         ![w].found = rows # {},
                         ![w].stats = IF rows = {} THEN @
                                      ELSE CountersOf(CHOOSE r \in rows : TRUE)]
    /\ UNCHANGED <<providers, conversations, usage, last, accounts>>

\* lines 176-188: the update of the row found, and the commit
UpdateStep(w) ==
    /\ inflight[w].pc = "update"
    /\ usage' = IF inflight[w].found
                THEN UsageUpdate(usage, RaceUser, RaceCode, RaceModel,
                                 inflight[w].stats, inflight[w].tokens_used)
                ELSE usage
    /\ inflight' = [inflight EXCEPT ![w] = IdleCall(inflight[w].done + 1)]
    /\ UNCHANGED <<providers, conversations, last, accounts>>

NextRace ==
    \/ \E w \in Workers, tokens_used \in RaceTokens :
          inflight[w].done < MaxCalls /\ BeginRecordUsage(w, tokens_used)
    \/ \E w \in Workers : InsertIgnoreStep(w)
    \/ \E w \in Workers : SelectStep(w)
    \/ \E w \in Workers : UpdateStep(w)

SpecRace == Init /\ [][NextRace]_vars

(***************************************************************************)
(* services/ai_service.py: get_user_default_provider over provider rows    *)
(* whose is_enabled and priority columns an administrator of the database  *)
(* has changed (no endpoint writes them after add_provider).               *)
(***************************************************************************)
MaxPriority == 1

\* tb_ai_providers.is_enabled set to false in the database
DisableProvider(pid) ==
    /\ \E p \in providers : p.id = pid /\ p.is_enabled
    /\ providers' = {IF p.id = pid THEN [p EXCEPT !.is_enabled = FALSE] ELSE p :
                       p \in providers}
    /\ last' = [NoRequest EXCEPT !.op = "disable_provider"]
    /\ UNCHANGED <<conversations, usage, accounts, inflight>>

\* tb_ai_providers.priority raised in the database
RaisePriority(pid) ==
    /\ \E p \in providers : p.id = pid /\ p.priority < MaxPriority
    /\ providers' = {IF p.id = pid THEN [p EXCEPT !.priority = @ + 1] ELSE p :
                       p \in providers}
    /\ last' = [NoRequest EXCEPT !.op = "raise_priority"]
    /\ UNCHANGED <<conversations, usage, accounts, inflight>>

\* lines 21-54: what get_user_default_provider returns or raises for sel
DefaultProviderAnswer(u, sel) ==
    [NoRequest EXCEPT
       !.op = "get_user_default_provider",
       !.user = u,
       !.path = sel.kind,
       !.provider_id = sel.row.id,
       !.selected = IF sel.kind = "row"
                    THEN create_provider(sel.row.provider_code).provider_code
                    ELSE "none",
       !.exc = IF sel.kind = "multiple" THEN ErrMultiple
               ELSE IF sel.kind = "none" THEN NoProviderError
               ELSE create_provider(sel.row.provider_code).exc,
       !.status = IF sel.kind = "row" /\ ~create_provider(sel.row.provider_code).raised
                  THEN 200 ELSE 500]

GetUserDefaultProvider(u) ==
    /\ \E sel \in SelectProvider(providers, u) : last' = DefaultProviderAnswer(u, sel)
    /\ UNCHANGED <<providers, conversations, usage, accounts, inflight>>

NextSelect ==
    \/ \E u \in Users, c \in ChatCodes : AddProvider(u, c)
    \/ \E u \in Users, pid \in ChatProviderIds : SetDefaultProvider(u, pid)
    \/ \E pid \in ChatProviderIds : DisableProvider(pid)
    \/ \E pid \in ChatProviderIds : RaisePriority(pid)
    \/ \E u \in Users : GetUserDefaultProvider(u)

SpecSelect == Init /\ [][NextSelect]_vars

(***************************************************************************)
(* api/chat.py with providers whose code the factory does not know         *)
(***************************************************************************)
MaxConvPhrase == 4
PhraseCodes == {"openai", PhraseCode}
PhraseProviderIds == {ProviderId(u, c) : u \in Users, c \in PhraseCodes}

NextPhrase ==
    \/ \E u \in Users, c \in PhraseCodes : AddProvider(u, c)
    \/ \E u \in Users, pid \in PhraseProviderIds : DeleteProvider(u, pid)
    \/ /\ Len(conversations) + 2 <= MaxConvPhrase
       /\ \E u \in Users, m \in {MsgHello, MsgShanghai} : ChatCompletion(u, "s1", m, VPlain)

SpecPhrase == Init /\ [][NextPhrase]_vars

(***************************************************************************)
(* Properties                                                              *)
(***************************************************************************)
DefaultsOf(u) == {p \in providers : p.user_id = u /\ p.is_default}

EnabledOf(u) == {p \in providers : p.user_id = u /\ p.is_enabled}

\* the rows the last request added to tb_ai_conversations
NewRows == SubSeq(conversations, last.nbefore + 1, Len(conversations))

\* the rows its (user, session) held before the last request
EarlierRows ==
    SelectSeq(SubSeq(conversations, 1, last.nbefore),
              LAMBDA r : r.user_id = last.user /\ r.session_id = last.session)

LastN(q, n) == SubSeq(q, IF Len(q) > n THEN Len(q) - n + 1 ELSE 1, Len(q))

AsMessages(rows) ==
    [i \in 1..Len(rows) |-> [role |-> rows[i].role, content |-> rows[i].content]]

\* the known cities a message names, by keyword or by the city's own name
NamedCities(m) ==
    {city_keywords[i].value :
        i \in {j \in 1..Len(city_keywords) :
                  \/ IsSubstr(city_keywords[j].key, Lower(m))
                  \/ IsSubstr(city_keywords[j].value, m)}}

IsWeatherCall(tc) == tc.name = "query_and_apply_weather"

\* an action record of exactly {type, parameters} that is not an error notice
IsPlainAction(a) == DOMAIN a = {"type", "parameters"} /\ a.type # "error"

\* the record an ordinary tool call stands for
PlainRecord(tc) ==
    [type |-> tc.name,
     parameters |-> IF json_loads(tc.arguments).ok THEN json_loads(tc.arguments).value
                    ELSE Dict(EmptyDict)]

PlainRecords(calls) == [i \in 1..Len(calls) |-> PlainRecord(calls[i])]

UsageRowsOf(usg, u, code, model) ==
    {r \in usg : r.user_id = u /\ r.provider_code = code /\ r.model_code = model
                 /\ r.date = Today}

\* the last request was a chat completion answered through a provider
ProviderBacked == last.op = "chat" /\ last.path \in {"provider", "decode_error"}

\* C1: after any sequence of add_provider, set_default_provider and
\* delete_provider calls every user has at most one provider row with
\* is_default = true, and a set_default_provider for a provider of the caller
\* leaves that provider as the caller's only default.
C1_AtMostOneDefault ==
    /\ \A u \in Users : Cardinality(DefaultsOf(u)) <= 1
    /\ \A p \in providers :
          (last.op = "set_default_provider" /\ last.status = 200
           /\ p.id = last.provider_id /\ p.user_id = last.user)
          => DefaultsOf(last.user) = {p}

\* the caller owns three providers, has just moved the default to one of
\* them, and another user keeps a default of their own
C1_Witness ==
    /\ last.op = "set_default_provider"
    /\ Cardinality({p \in providers : p.user_id = last.user}) = 3
    /\ \E p \in DefaultsOf(last.user) : p.id = last.provider_id
    /\ \E u \in Users : u # last.user /\ DefaultsOf(u) # {}

\* C2: when the caller has no configured provider and the message names a
\* known city, the actions of the response are exactly one camera_flyTo
\* action whose parameters name that city.
C2_FallbackFliesToCity ==
    (last.op = "chat" /\ EnabledOf(last.user) = {} /\ NamedCities(last.message) # {})
    => /\ last.status = 200
       /\ Len(last.actions) = 1
       /\ last.actions[1].type = "camera_flyTo"
       /\ \E c \in NamedCities(last.message) :
             last.actions[1].parameters = Dict([city |-> c])

\* C3: the inbound user message of a chat completion is never lost: once the
\* request has finished, also when the provider call raised, the rows it
\* added to its (user, session) include the user row with its message.
C3_UserMessageKept ==
    last.op = "chat"
    => \E i \in 1..Len(NewRows) :
          NewRows[i] = ConversationRow(last.user, last.session, "user",
                                       last.message, NullText, NullInt)

\* a provider call that raised in a session which already holds messages
C3_Witness ==
    /\ last.op = "chat"
    /\ last.path = "provider_error"
    /\ last.exc = VendorDown
    /\ last.nbefore > 0

\* C4: when the provider call raises, an assistant row whose content is the
\* error text is persisted in the same (user, session), the exception is
\* re-raised, and no normal assistant reply is persisted for the request.
C4_ErrorReplyPersisted ==
    (last.op = "chat" /\ last.path = "provider_error")
    => /\ last.status = 500
       /\ NewRows =
            << ConversationRow(last.user, last.session, "user", last.message,
                               NullText, NullInt),
               ConversationRow(last.user, last.session, "assistant",
                               ErrPrefix \o last.exc, NullText, NullInt) >>

\* the vendor of the selected zhipu provider failed on the first request
C4_Witness ==
    /\ last.op = "chat"
    /\ last.path = "provider_error"
    /\ last.exc = VendorDown
    /\ last.selected = "zhipu"
    /\ last.nbefore = 0
    /\ Len(conversations) = 2

\* C5: when the user has no enabled provider, chat_completion answers 200
\* with the canned reply, persists that reply as the single assistant row of
\* the request and leaves the usage statistics as they were.
C5_FallbackAnswers ==
    (last.op = "chat" /\ EnabledOf(last.user) = {})
    => /\ last.status = 200
       /\ last.content = CannedReply
       /\ SelectSeq(NewRows, LAMBDA r : r.role = "assistant") =
            << ConversationRow(last.user, last.session, "assistant", CannedReply,
                               ModelName(last.user), 0) >>
       /\ usage = last.usage_before

\* a fallback answer while usage rows of earlier provider calls exist
C5_Witness ==
    /\ last.op = "chat"
    /\ last.path = "fallback"
    /\ EnabledOf(last.user) = {}
    /\ usage # {}

\* C6: for a session that already holds more than 20 messages the loaded
\* history is the 20 most recently created ones (with or without the
\* message of the request itself), in chronological order.
C6_LoadsNewestWindow ==
    (last.op = "chat" /\ Len(EarlierRows) > HistoryLimit)
    => \/ last.history = LastN(EarlierRows, HistoryLimit)
       \/ last.history =
            LastN(EarlierRows \o
                    << ConversationRow(last.user, last.session, "user",
                                       last.message, NullText, NullInt) >>,
                  HistoryLimit)

\* C7: the context sent to the provider is the system prompt (exactly when
\* an earlier message exists), then every earlier message of the session in
\* order with none missing, then the current user message once; stated for
\* sessions whose earlier messages all fit the window.
C7_ContextKeepsEarlierMessages ==
    (last.op = "chat" /\ Len(EarlierRows) < HistoryLimit)
    => last.context =
         (IF EarlierRows # <<>>
          THEN << [role |-> "system", content |-> SystemPrompt] >> ELSE <<>>)
         \o AsMessages(EarlierRows)
         \o << [role |-> "user", content |-> last.message] >>

\* C8: every tool call of the provider response other than
\* query_and_apply_weather gives one record {type: function name,
\* parameters: decoded arguments} in the actions of the response, in the
\* order of the tool calls; arguments that are not valid JSON give empty
\* parameters and do not fail the request.
C8_ToolCallsBecomeActions ==
    ProviderBacked
    => /\ (\A i \in 1..Len(last.tool_calls) : ~IsWeatherCall(last.tool_calls[i]))
          => last.status = 200
       /\ last.status = 200
          => SelectSeq(last.actions, IsPlainAction) =
             PlainRecords(SelectSeq(last.tool_calls, LAMBDA tc : ~IsWeatherCall(tc)))

\* a tool call with malformed arguments followed by one with well-formed ones
C8_Witness ==
    /\ ProviderBacked
    /\ last.status = 200
    /\ last.tool_calls = << [name |-> "set_weather", arguments |-> ArgBad],
                            [name |-> "camera_flyTo", arguments |-> ArgHeight] >>
    /\ Len(last.actions) = 2

\* C9: a response whose only tool call is query_and_apply_weather is
\* answered, and its actions are either camera_flyTo then get_weather with
\* the same coordinates, or a single action of type error.
C9_WeatherSceneExpands ==
    (ProviderBacked /\ Len(last.tool_calls) = 1 /\ IsWeatherCall(last.tool_calls[1]))
    => /\ last.status = 200
       /\ \/ /\ Len(last.actions) = 2
             /\ last.actions[1].type = "camera_flyTo"
             /\ last.actions[2].type = "get_weather"
             /\ last.actions[1].parameters.d.longitude =
                  last.actions[2].parameters.d.longitude
             /\ last.actions[1].parameters.d.latitude =
                  last.actions[2].parameters.d.latitude
          \/ /\ Len(last.actions) = 1
             /\ last.actions[1].type = "error"

\* C10: each successful provider-backed completion leaves exactly one usage
\* row for its (user, provider, model, day), with one request and the
\* reported total tokens more than the key had before, so that k completions
\* count k requests and the sum of their tokens.
C10_UsageCountsRequests ==
    (last.op = "chat" /\ last.path = "provider")
    => \E r \in usage :
          /\ UsageRowsOf(usage, last.user, last.selected, ModelName(last.user)) = {r}
          /\ \/ /\ UsageRowsOf(last.usage_before, last.user, last.selected,
                               ModelName(last.user)) = {}
                /\ r.request_count = 1
                /\ r.total_tokens = TokenGet(last.tokens_used, "total_tokens")
             \/ \E r0 \in UsageRowsOf(last.usage_before, last.user, last.selected,
                                      ModelName(last.user)) :
                   /\ r.request_count = r0.request_count + 1
                   /\ r.total_tokens =
                        r0.total_tokens + TokenGet(last.tokens_used, "total_tokens")

\* the rows of a table outside the (user, session) pair
RowsOutside(db, u, s) == SelectSeq(db, LAMBDA r : ~(r.user_id = u /\ r.session_id = s))

\* the rows of a table inside the (user, session) pair
RowsInside(db, u, s) == SelectSeq(db, LAMBDA r : r.user_id = u /\ r.session_id = s)

\* C11: clear_chat_history(session) by user u removes every conversation
\* row of that user and session and leaves the rows of every other session
\* and of every other user, same session id included, as they were and in
\* their order.
C11_ClearRemovesOnlyOwnSession ==
    [][last'.op = "clear_chat_history"
       => /\ RowsInside(conversations', last'.user, last'.session) = <<>>
          /\ RowsOutside(conversations', last'.user, last'.session) =
               RowsOutside(conversations, last'.user, last'.session)
          /\ Len(conversations') = Len(RowsOutside(conversations, last'.user, last'.session))]_vars

\* a clear that removed rows while another user holds rows under the same
\* session id and the caller holds rows in another session
C11_Witness ==
    /\ last.op = "clear_chat_history"
    /\ Len(conversations) < last.nbefore
    /\ \E i \in 1..Len(conversations) :
          conversations[i].user_id # last.user /\ conversations[i].session_id = last.session
    /\ \E i \in 1..Len(conversations) :
          conversations[i].user_id = last.user /\ conversations[i].session_id # last.session

\* C17: the conversation log is append-only: a step either leaves the table
\* as it is, or is a chat_completion that appends rows of its own (user,
\* session) after the unchanged existing rows, or is a clear_chat_history
\* that removes rows of its own (user, session) only.
C17_LogAppendOnly ==
    [][\/ conversations' = conversations
       \/ /\ last'.op = "chat"
          /\ Len(conversations') > Len(conversations)
          /\ SubSeq(conversations', 1, Len(conversations)) = conversations
          /\ \A i \in (Len(conversations) + 1)..Len(conversations') :
                /\ conversations'[i].user_id = last'.user
                /\ conversations'[i].session_id = last'.session
       \/ /\ last'.op = "clear_chat_history"
          /\ conversations' = RowsOutside(conversations, last'.user, last'.session)]_vars

\* a chat completion that appended its two rows after at least four
\* existing rows, among them rows of another user and of another session
C17_Witness ==
    /\ last.op = "chat"
    /\ last.nbefore >= 4
    /\ Len(conversations) = last.nbefore + 2
    /\ \E i \in 1..last.nbefore : conversations[i].session_id # last.session
    /\ \E i \in 1..last.nbefore : conversations[i].user_id # last.user

\* C12: create_provider returns the matching adapter for each of the seven
\* vendor codes that have an adapter class and raises the invalid-provider
\* error exactly for the codes that have none: a chat completion whose
\* selected provider has an adapter never fails with that error.
C12_FactoryCoversAdapters ==
    (last.op = "chat" /\ last.selected # "none")
    => /\ create_provider(last.selected).raised <=> last.selected \notin AdapterCodes
       /\ last.exc = ErrUnsupported \o <<last.selected>>
            <=> last.selected \notin AdapterCodes

\* C13: every adapter returns the tool calls of the vendor response, each
\* of them and in order, and returns none only when the vendor response
\* carries none.
C13_AdaptersForwardToolCalls ==
    last.op = "adapter_chat_completion"
    => last.tool_calls = last.vendor_tool_calls

\* C14: stored provider keys round-trip: decrypt_api_key(encrypt_api_key(k))
\* returns k for every key k, without raising.
C14_KeysRoundTrip ==
    last.op = "key_round_trip"
    => last.status = 200 /\ last.content = last.message

\* the provider rows of user u under provider code c
ProvidersOf(tbl, u, c) == {p \in tbl : p.user_id = u /\ p.provider_code = c}

\* C15: after any sequence of add_provider, set_default_provider and
\* delete_provider calls a user has at most one provider row per provider
\* code; an add_provider answered 400 leaves every provider row unchanged,
\* and one answered 200 adds one row whose (user, provider_code) was free.
C15_UniquePerUserAndCode ==
    [][/\ \A u \in Users, c \in ProviderCodes :
             Cardinality(ProvidersOf(providers', u, c)) <= 1
       /\ (last'.op = "add_provider" /\ last'.status = 400)
             => /\ providers' = providers
                /\ \E p \in providers : p.user_id = last'.user
       /\ (last'.op = "add_provider" /\ last'.status = 200)
             => \E p \in providers' \ providers :
                   /\ providers' = providers \cup {p}
                   /\ p.user_id = last'.user
                   /\ ProvidersOf(providers, p.user_id, p.provider_code) = {}
       /\ (last'.op = "add_provider") => last'.status \in {200, 400}]_vars

\* an add_provider refused for a user who holds three providers, one of
\* them the default
C15_Witness ==
    /\ last.op = "add_provider"
    /\ last.status = 400
    /\ Cardinality({p \in providers : p.user_id = last.user}) = 3
    /\ DefaultsOf(last.user) # {}

\* C16: after any sequence of register, get_user_config and
\* update_user_config calls every user has at most one configuration row;
\* get_user_config for a user that has none creates one with the default
\* values and returns it, and for a user that has one it creates nothing and
\* returns that one.
C16_OneConfigPerUser ==
    [][/\ \A u \in Users : Cardinality(ConfigRowsOf(configs', u)) <= 1
       /\ (last'.op = "get_user_config")
            => /\ last'.status = 200
               /\ IF ConfigRowsOf(configs, last'.user) = {}
                  THEN /\ configs' = Append(configs, DefaultConfig(last'.user))
                       /\ last'.data = [model_name |-> "glm-4-flash",
                                        auto_execute |-> FALSE]
                  ELSE /\ configs' = configs
                       /\ \E i \in ConfigRowsOf(configs, last'.user) :
                             last'.data = [model_name |-> configs[i].model_name,
                                           auto_execute |-> configs[i].auto_execute]]_vars

\* a first read that created the configuration of a user registered
\* without one, while another user holds a changed configuration
C16_Witness ==
    /\ last.op = "get_user_config"
    /\ last.status = 200
    /\ Len(configs) = last.nbefore + 1
    /\ configs[Len(configs)] = DefaultConfig(last.user)
    /\ \E i \in 1..last.nbefore :
          configs[i].user_id # last.user /\ configs[i].model_name = "glm-4"

\* C18: get_current_user answers 401 when the token is invalid, lacks the
\* sub claim or names a user that does not exist or is soft-deleted, 403
\* when it names a user whose status is not 1, and lets the request pass
\* only for an existing, not deleted user of status 1: no token
\* authenticates a user once that user is soft-deleted or disabled.
C18_AuthRejects ==
    last.op = "get_current_user"
    => /\ (~last.token.signed \/ last.token.expired \/ last.token.sub = "none")
            => last.status = 401
       /\ (\A r \in users : r.id = last.token.sub => r.is_deleted)
            => last.status = 401
       /\ (/\ last.token.signed /\ ~last.token.expired
           /\ \E r \in users : r.id = last.token.sub /\ ~r.is_deleted /\ r.status # 1)
            => last.status = 403
       /\ last.status = 200
            => /\ last.user = last.token.sub
               /\ \E r \in users : r.id = last.user /\ ~r.is_deleted /\ r.status = 1
       /\ last.status \in {200, 401, 403}

\* a well-signed, unexpired token of a soft-deleted user is refused while
\* another user is disabled
C18_Witness ==
    /\ last.op = "get_current_user"
    /\ last.status = 401
    /\ last.token.signed /\ ~last.token.expired
    /\ \E r \in users : r.id = last.token.sub /\ r.is_deleted /\ r.status = 1
    /\ \E r \in users : r.id # last.token.sub /\ r.status = 0

CesiumConditions == {"clear", "cloudy", "rain", "snow", "fog"}

\* C19: the weather condition mapping returns, for every input, exactly one
\* of clear, cloudy, rain, snow, fog; a condition absent from its table maps
\* to clear; the weather service and the MCP weather client map every
\* condition to the same value.
C19_ConditionMappingTotal ==
    last.op = "parse_weather_data"
    => /\ last.data.service.cesium_condition \in CesiumConditions
       /\ last.data.client.cesium_condition \in CesiumConditions
       /\ last.data.service.condition \notin
            {"Clear", "Clouds", "Rain", "Drizzle", "Thunderstorm", "Snow", "Mist",
             "Fog", "Haze", "Smoke", "Dust", "Sand", "Ash", "Squall", "Tornado"}
            => last.data.service.cesium_condition = "clear"
       /\ last.data.service.cesium_condition = last.data.client.cesium_condition

\* a condition outside the table, in another letter case than its entry
C19_Witness ==
    /\ last.op = "parse_weather_data"
    /\ last.data.service.condition = "RAIN"
    /\ last.data.service.cesium_condition = "clear"
    /\ last.data.client.cesium_condition = "clear"

SatisfiesSupplied(b, op, data) ==
    /\ data.category = "none" \/ b.category = data.category
    /\ data.min_height = 0 \/ (b.height # 0 /\ b.height >= data.min_height)
    /\ op = "buffer_analysis"
         => (data.risk_level = -1
               \/ (b.risk_level # -1 /\ b.risk_level >= data.risk_level))

\* the buildings within radius r of the request's center that satisfy
\* every supplied predicate
Matching(op, data, r) ==
    {b.id : b \in {c \in BuildingTable : WithinRadius(c, data.center, r)
                                          /\ SatisfiesSupplied(c, op, data)}}

\* C21: buffer_analysis and search_in_circle return exactly the buildings
\* within the radius of a finite center that satisfy every supplied predicate
\* (category, minimum height, minimum risk level); the order of the
\* returned list is not part of this formula.
C21_ReturnsExactlyMatching ==
    (last.op \in {"search_in_circle", "buffer_analysis"} /\ ~last.data.center.inf)
    => /\ last.data.first.ids = Matching(last.op, last.data, last.data.r1)
       /\ last.data.second.ids = Matching(last.op, last.data, last.data.r2)

SpatialOps == {"search_in_circle", "buffer_analysis", "viewshed_analysis",
               "accessibility_analysis"}

\* the buildings whose processing raises in the request: the distance to a
\* center that is not finite, or the comparison of a NULL risk_level
RaisingRows(op, data) ==
    {b \in BuildingTable :
        \/ RowRaises(b, data.center)
        \/ op = "buffer_analysis" /\ data.risk_level # -1 /\ b.risk_level = -1}

\* the answers a request recorded
AnswersOf(op, data) ==
    IF op \in {"search_in_circle", "buffer_analysis"}
    THEN {[status |-> data.first.status, ids |-> data.first.ids],
          [status |-> data.second.status, ids |-> data.second.ids]}
    ELSE IF op = "viewshed_analysis"
         THEN {[status |-> data.answer.status, ids |-> data.answer.ids]}
         ELSE {[status |-> data.answer.status, ids |-> {}]}

\* C22: in the spatial queries (buffer, viewshed, accessibility, circle
\* search) a building whose processing raises is skipped: the request still
\* returns its result, and the raising building is not part of it.
C22_RaisingRowSkipped ==
    (last.op \in SpatialOps /\ RaisingRows(last.op, last.data) # {})
    => \A a \in AnswersOf(last.op, last.data) :
          /\ a.status = 200
          /\ \A b \in RaisingRows(last.op, last.data) : b.id \notin a.ids

\* C26: accessibility_analysis answers with one isochrone for every 5-minute
\* multiple that does not exceed time_limit: the times are 5, 10, ...,
\* 5 * floor(time_limit / 5), each with distance = speed(mode) * time, an
\* unknown mode using the driving speed.
C26_IsochronePerFiveMinutes ==
    last.op = "accessibility_analysis"
    => last.data.answer.isochrones
         = [i \in 1..(last.data.time_limit \div 5)
              |-> [time |-> 5 * i, distance |-> SpeedOf(last.data.mode) * (5 * i)]]

\* the calls of _record_usage that completed
CompletedCalls == inflight["w1"].done + inflight["w2"].done

\* C23: the read-then-increment of the usage counters is not safe under
\* concurrency: the update of _record_usage writes the counters the request
\* read earlier plus its own share, whatever another request committed in
\* between, so that two interleaved requests leave counters that reflect
\* fewer requests and tokens than the calls that completed.
C23_UpdateWritesStaleRead ==
    [][\A w \in Workers :
          (inflight[w].pc = "update" /\ inflight'[w].pc = "idle" /\ inflight[w].found)
          => \E r \in UsageSelect(usage', RaceUser, RaceCode, RaceModel) :
                /\ r.request_count = inflight[w].stats.request_count + 1
                /\ r.total_tokens = inflight[w].stats.total_tokens
                                      + TokenGet(inflight[w].tokens_used, "total_tokens")]_vars

\* both requests are outside _record_usage and the row counts fewer
\* requests and fewer tokens than the calls that completed
C23_Witness ==
    /\ \A w \in Workers : inflight[w].pc = "idle"
    /\ \E r \in UsageSelect(usage, RaceUser, RaceCode, RaceModel) :
          /\ r.request_count < CompletedCalls
          /\ r.total_tokens < 3 * CompletedCalls

\* the enabled rows of u of the highest priority
TopEnabledOf(u) == {p \in EnabledOf(u) : \A q \in EnabledOf(u) : q.priority <= p.priority}

\* C24: get_user_default_provider selects the user's enabled provider that
\* is marked default; when no enabled provider is marked default, an enabled
\* provider of the highest priority; when the user has no enabled provider
\* it raises the no-provider-configured error.  The provider selected is
\* enabled and belongs to the user, and an adapter that is returned is the
\* adapter of the provider selected.
C24_SelectsEnabledDefault ==
    last.op = "get_user_default_provider"
    => /\ EnabledOf(last.user) = {}
            => last.path = "none" /\ last.status = 500 /\ last.exc = NoProviderError
       /\ EnabledOf(last.user) # {}
            => \E p \in EnabledOf(last.user) :
                  /\ last.path = "row"
                  /\ last.provider_id = p.id
                  /\ p.user_id = last.user /\ p.is_enabled
                  /\ (EnabledOf(last.user) \cap DefaultsOf(last.user) # {}) => p.is_default
                  /\ (EnabledOf(last.user) \cap DefaultsOf(last.user) = {})
                        => p \in TopEnabledOf(last.user)
                  /\ last.status = 200 => last.selected = p.provider_code

\* the default of u1 is disabled and of a higher priority than the enabled
\* provider that is selected, while u2 has an enabled default
C24_Witness ==
    /\ last.op = "get_user_default_provider"
    /\ last.user = "u1"
    /\ last.status = 200
    /\ \E d \in DefaultsOf("u1") : ~d.is_enabled /\ d.priority = 1
    /\ \E p \in EnabledOf("u1") : p.id = last.provider_id /\ ~p.is_default /\ p.priority = 0
    /\ \E q \in EnabledOf("u2") : q.is_default

\* C25: the rule-based fallback of chat_completion is taken only when the
\* user has no enabled provider; a request of a user whose enabled provider
\* has a code the registry does not know is not answered with the canned
\* reply but fails, with the error message stored as the assistant row.
C25_FallbackOnlyWithoutProvider ==
    last.op = "chat"
    => /\ last.path = "fallback" => EnabledOf(last.user) = {}
       /\ EnabledOf(last.user) # {}
            => /\ last.status = 500
               /\ last.content # CannedReply
               /\ Len(NewRows) = 2
               /\ NewRows[2].role = "assistant"
               /\ NewRows[2].content = ErrPrefix \o last.exc

\* the number of rows of the given role the last request added
AddedWithRole(role) == Cardinality({i \in 1..Len(NewRows) : NewRows[i].role = role})

\* C27: every chat_completion request, whether it returns a response or
\* raises, appends exactly one row with role user and exactly one row with
\* role assistant to its (user, session) log, also when it fails after the
\* assistant reply was committed.
C27_OneUserOneAssistantRow ==
    last.op = "chat"
    => /\ AddedWithRole("user") = 1
       /\ AddedWithRole("assistant") = 1
       /\ \A i \in 1..Len(NewRows) :
             NewRows[i].user_id = last.user /\ NewRows[i].session_id = last.session

\* C28: set_default_provider called with a provider id that does not
\* identify a provider of the calling user changes no provider row (the
\* user's current default stays the default) and does not report success.
C28_UnknownIdChangesNothing ==
    [][(/\ last'.op = "set_default_provider"
        /\ ~\E p \in providers : p.id = last'.provider_id /\ p.user_id = last'.user)
       => (providers' = providers /\ last'.status # 200)]_vars

\* the provider rows owned by users other than u
ProvidersOfOthers(tbl, u) == {p \in tbl : p.user_id # u}

\* C29: add_provider, set_default_provider and delete_provider invoked by
\* a user never create, change or delete a provider row of another user,
\* also when the id passed is the id of another user's provider.
C29_UserIsolation ==
    [][last'.op \in {"add_provider", "set_default_provider", "delete_provider"}
       => ProvidersOfOthers(providers', last'.user) = ProvidersOfOthers(providers, last'.user)]_vars

\* u1 passed the id of the default provider of u2 to set_default_provider
\* or delete_provider, and the row of u2 is still there and still default
C29_Witness ==
    /\ last.op \in {"set_default_provider", "delete_provider"}
    /\ last.user = "u1"
    /\ last.provider_id = ProviderId("u2", "zhipu")
    /\ \E p \in providers : p.id = ProviderId("u2", "zhipu") /\ p.user_id = "u2" /\ p.is_default
    /\ \E q \in providers : q.user_id = "u1"

\* C30: only access tokens authenticate API requests: a bearer token
\* produced by create_refresh_token (carrying type = refresh) is rejected by
\* get_current_user with 401 and never yields a current user.
C30_RefreshTokenRejected ==
    (last.op = "get_current_user"
       /\ \E u \in Users : last.token = create_refresh_token(u))
    => last.status = 401 /\ last.user = "none"

====
